---------------------------- MODULE Spec2Model ----------------------------
(***************************************************************************)
(* Model of the barcode-to-Excel page component.                           *)
(*                                                                         *)
(* src/app/page.tsx holds three revisions of the Home component and       *)
(* src/unnamed/part_000 a fourth; one behaviour of the model runs one of   *)
(* them, chosen in Init:                                                   *)
(*   "enterOnly"      page.tsx   1-217  input + Enter                      *)
(*   "globalListener" page.tsx 219-544  window keydown listener, 500 ms    *)
(*                                       silence reset, 200 ms auto-save   *)
(*   "debounce"       page.tsx 546-778  input onChange, 300 ms auto-save   *)
(*   "camera"         part_000          Html5Qrcode decoder                *)
(*                                                                         *)
(* React is modelled by its contract: a state setter queues an update;     *)
(* a later commit (action Commit) makes the queued value the rendered one, *)
(* re-creates the closures and runs the effects whose dependencies         *)
(* changed.  Refs are plain mutable cells written immediately.  Only       *)
(* scannedItems and isScanning are followed through the queue; message and *)
(* currentScan are read by no handler of the timing logic before the next  *)
(* commit and are written through.                                         *)
(*                                                                         *)
(* Strings are sequences of one-character strings.  Time is Date.now() in  *)
(* milliseconds.  A timer set with setTimeout may fire at any time at or   *)
(* after its due time.                                                     *)
(*                                                                         *)
(* The timeouts that dismiss a message (2000 and 3000 ms) are kept as one  *)
(* flag, dismissPending: some such timeout may be outstanding.  The rows   *)
(* a step hands to XLSX.writeFile are kept in written.                     *)
(***************************************************************************)
EXTENDS Integers, Sequences, FiniteSets, TLC

---------------------------------------------------------------------------
(* Bounds of the model *)

\* longest scan buffer / typed sequence explored
MaxBuf == 2
\* largest number of records in the list
MaxItems == 2
\* the clock runs for at most this many steps of 300 ms
MaxTicks == 2
\* Date.now() at mount
StartNow == 1000
\* most Html5Qrcode instances alive at once
MaxDecoders == 2

\* keys a scanner or a person can send, besides Enter and non-printing keys
Chars == {"a", " "}
\* how far the clock moves between two events (ms)
Delays == {300, 600}

---------------------------------------------------------------------------
(* Program constants *)

SilenceThreshold == 500
QuietTimeout == 200
DebounceTimeout == 300
InitialLastKeyTime == 0

Variants == {"enterOnly", "globalListener", "debounce", "camera"}

\* useRef<NodeJS.Timeout | null>(null): timer ids are positive, 0 stands for null
NoTimer == 0
\* useRef<Html5Qrcode | null>(null): decoder ids are positive, 0 stands for null
NoScanner == 0
\* useState<...| null>(null)
NoMessage == [type |-> "none", kind |-> "none", serial |-> <<>>]
\* no file written: a file has at least its header row
NoFile == <<>>

---------------------------------------------------------------------------
(* String.prototype.trim on sequences of characters *)

IsSpace(c) == c = " "

RECURSIVE TrimStart(_)
TrimStart(s) ==
    IF s = <<>> THEN <<>>
    ELSE IF IsSpace(Head(s)) THEN TrimStart(Tail(s)) ELSE s

RECURSIVE TrimEnd(_)
TrimEnd(s) ==
    IF s = <<>> THEN <<>>
    ELSE IF IsSpace(s[Len(s)]) THEN TrimEnd(SubSeq(s, 1, Len(s) - 1)) ELSE s

Trim(s) == TrimEnd(TrimStart(s))

---------------------------------------------------------------------------
VARIABLES
    variant,            \* which revision of the component runs
    mounted,            \* the component is mounted
    now,                \* Date.now()
    scannedItems,       \* rendered value of the scannedItems state
    queuedItems,        \* scannedItems with the queued updaters applied
    isScanning,         \* rendered value of the isScanning state
    queuedScanning,     \* isScanning with the queued updaters applied
    message,            \* the message state
    dismissPending,     \* some setTimeout(() => setMessage(null), ...) is
                        \* outstanding
    currentScan,        \* the currentScan state (the input's value)
    scanBufferRef,      \* scanBufferRef.current
    lastKeyTimeRef,     \* lastKeyTimeRef.current
    scannedItemsRef,    \* scannedItemsRef.current
    autoSaveTimeoutRef, \* autoSaveTimeoutRef.current: a timer id or Null
    timers,             \* auto-save timers set and neither fired nor cleared;
                        \* the field paused is history: the session was
                        \* toggled off while the timer was outstanding
    scannerRef,         \* scannerRef.current: a decoder id or NoScanner
    decoders,           \* Html5Qrcode instances started and not stopped
    stopAwait,          \* the decoder whose stop() stopScanning awaits
    written,            \* the rows of the file the step wrote with
                        \* XLSX.writeFile, NoFile when it wrote none
    \* history of the run, read only by the properties
    lastEvent,          \* kind of the step that led to this state
    lastKey,            \* the key of that step, when it handled a key
    lastHanded,         \* candidates that step passed to the save function
    typed,              \* characters accepted since the last sequence boundary
                        \* (Enter, a toggle, or a gap above the threshold)
    handed,        \* candidates passed on since that boundary
    seqGap,             \* largest gap between two characters of typed
    startedEmpty        \* the buffer was empty when typed began

progVars == <<variant, mounted, now, scannedItems, queuedItems, isScanning,
              queuedScanning, message, dismissPending, currentScan,
              scanBufferRef, lastKeyTimeRef, scannedItemsRef,
              autoSaveTimeoutRef, timers, scannerRef, decoders, stopAwait,
              written>>
histVars == <<lastEvent, lastKey, lastHanded, typed, handed, seqGap,
              startedEmpty>>
vars == <<progVars, histVars>>


---------------------------------------------------------------------------
(* Data *)

Max(a, b) == IF a >= b THEN a ELSE b

\* { id: Date.now().toString(), serialNumber, timestamp: new Date() }
\* (the decimal rendering of the id is one-to-one and is left as the number)
\* a record of the first character of the candidate only
NewItemOfFirstCharacter(serialNumber) ==
    [id |-> now, serialNumber |-> SubSeq(serialNumber, 1, 1), timestamp |-> now]

NewItem(serialNumber) ==
    [id |-> now, serialNumber |-> serialNumber, timestamp |-> now]

\* items.some(item => item.serialNumber === serialNumber)
HasSerial(items, serialNumber) ==
    \E i \in 1..Len(items) : items[i].serialNumber = serialNumber

\* items.map(item => item.serialNumber)
SerialsOf(items) == [i \in 1..Len(items) |-> items[i].serialNumber]

\* the filter with its test the wrong way round
FilterOutOthers(items, id) ==
    IF items = <<>> THEN <<>>
    ELSE IF Head(items).id = id THEN <<Head(items)>> ELSE <<>>

\* prev.filter(item => item.id !== id)
RECURSIVE FilterOutId(_, _)
FilterOutId(items, id) ==
    IF items = <<>> THEN <<>>
    ELSE IF Head(items).id # id
         THEN <<Head(items)>> \o FilterOutId(Tail(items), id)
         ELSE FilterOutId(Tail(items), id)

DuplicateMessage(serialNumber) ==
    [type |-> "error", kind |-> "duplicate", serial |-> serialNumber]
ScannedMessage(serialNumber) ==
    [type |-> "success", kind |-> "scanned", serial |-> serialNumber]
ClearedMessage == [type |-> "success", kind |-> "cleared", serial |-> <<>>]
EmptyExportMessage == [type |-> "error", kind |-> "emptyExport", serial |-> <<>>]
DownloadedMessage == [type |-> "success", kind |-> "downloaded", serial |-> <<>>]

\* clearTimeout(handle) on the set of outstanding timers
ClearTimeout(pending, handle) == {t \in pending : t.id # handle}

\* the id setTimeout returns: one no outstanding timer has.  (The id of a
\* timer that is gone may come back: the only handle kept, autoSaveTimeoutRef,
\* is overwritten by the statement that sets the new timer.)
FreshTimerId ==
    CHOOSE i \in 1..(Cardinality(timers) + 1) : \A t \in timers : t.id # i

\* a state setter called after unmount changes nothing
SetState(queued, value) == IF mounted THEN value ELSE queued

---------------------------------------------------------------------------
(* History bookkeeping *)

KeyEvent(kind, key, passedOn) ==
    /\ lastEvent' = kind
    /\ lastKey' = key
    /\ lastHanded' = passedOn
    /\ written' = NoFile

Event(kind, passedOn) == KeyEvent(kind, "none", passedOn)

\* a keydown event: "keyMod" when Ctrl, Meta or Alt is held
KeyKind(modifier) == IF modifier THEN "keyMod" ELSE "key"

SeqSame == UNCHANGED <<typed, handed, seqGap, startedEmpty>>

SeqKeep ==
    /\ handed' = handed \o lastHanded'
    /\ UNCHANGED <<typed, seqGap, startedEmpty>>

SeqReset ==
    /\ typed' = <<>>
    /\ handed' = <<>>
    /\ seqGap' = 0
    /\ startedEmpty' = TRUE

---------------------------------------------------------------------------
(* Initial state: the values of useState and useRef at mount *)

InitOf(revisions) ==
    /\ variant \in revisions
    /\ mounted = TRUE
    /\ now = StartNow
    /\ scannedItems = <<>>
    /\ queuedItems = <<>>
    /\ isScanning = (variant # "camera")
    /\ queuedScanning = (variant # "camera")
    /\ message = NoMessage
    /\ dismissPending = FALSE
    /\ written = NoFile
    /\ currentScan = <<>>
    /\ scanBufferRef = <<>>
    /\ lastKeyTimeRef = InitialLastKeyTime
    /\ scannedItemsRef = <<>>
    /\ autoSaveTimeoutRef = NoTimer
    /\ timers = {}
    /\ scannerRef = NoScanner
    /\ decoders = {}
    /\ stopAwait = NoScanner
    /\ lastEvent = "init"
    /\ lastKey = "none"
    /\ lastHanded = <<>>
    /\ typed = <<>>
    /\ handed = <<>>
    /\ seqGap = 0
    /\ startedEmpty = TRUE

---------------------------------------------------------------------------
(* The clock *)

Tick ==
    \E d \in Delays :
        /\ now + d <= StartNow + 300 * MaxTicks
        /\ now' = now + d
        /\ UNCHANGED <<variant, mounted, scannedItems, queuedItems, isScanning,
                       queuedScanning, message, dismissPending, currentScan, scanBufferRef,
                       lastKeyTimeRef, scannedItemsRef, autoSaveTimeoutRef,
                       timers, scannerRef, decoders, stopAwait>>
        /\ Event("tick", <<>>)
        /\ SeqSame

---------------------------------------------------------------------------
(* globalListener revision: page.tsx 219-544 *)

\* saveScannedBarcode(scannedValue); pending is the set of timers outstanding
\* when it is called (the timer whose callback calls it has already fired)
saveScannedBarcode(scannedValue, pending) ==
    IF Trim(scannedValue) = <<>>
    THEN \* if (!scannedValue.trim()) return
         /\ timers' = pending
         /\ UNCHANGED <<queuedItems, message, dismissPending,
                        scanBufferRef, currentScan,
                        autoSaveTimeoutRef>>
    ELSE /\ IF HasSerial(scannedItemsRef, Trim(scannedValue))
            THEN /\ message' = DuplicateMessage(Trim(scannedValue))
                 /\ UNCHANGED queuedItems
            ELSE /\ queuedItems' =
                        SetState(queuedItems,
                                 Append(queuedItems, NewItem(Trim(scannedValue))))
                 /\ message' = ScannedMessage(Trim(scannedValue))
         /\ dismissPending' = TRUE      \* setTimeout(..., 2000), both branches
         /\ scanBufferRef' = <<>>
         /\ currentScan' = <<>>
         /\ timers' = ClearTimeout(pending, autoSaveTimeoutRef)
         /\ autoSaveTimeoutRef' = NoTimer

\* handleGlobalKeyDown, Enter branch
EnterKey ==
    /\ IF scanBufferRef # <<>>
       THEN /\ saveScannedBarcode(scanBufferRef, timers)
            /\ lastHanded' = <<scanBufferRef>>
       ELSE /\ UNCHANGED <<queuedItems, message, dismissPending,
                           scanBufferRef, currentScan,
                           autoSaveTimeoutRef, timers>>
            /\ lastHanded' = <<>>
    /\ SeqReset
    /\ UNCHANGED lastKeyTimeRef

\* the silence comparison the wrong way round
BufferAfterSilenceCheckReversed(timeSinceLastKey) ==
    IF timeSinceLastKey < SilenceThreshold THEN <<>> ELSE scanBufferRef

\* the buffer after the silence check of the character branch
BufferAfterSilenceCheck(timeSinceLastKey) ==
    IF timeSinceLastKey > SilenceThreshold THEN <<>> ELSE scanBufferRef

\* the pending timer left to run
TimersNotCleared ==
    timers

\* the timers left once the character branch has cleared the pending one
TimersAfterClear ==
    ClearTimeout(timers, autoSaveTimeoutRef)

\* the timer set with no delay
AutoSaveTimerNoDelay ==
    [id |-> FreshTimerId, due |-> now, value |-> <<>>, paused |-> FALSE]

\* the timer the character branch sets
AutoSaveTimer ==
    [id |-> FreshTimerId, due |-> now + QuietTimeout, value |-> <<>>,
     paused |-> FALSE]

\* handleGlobalKeyDown, character branch
CharacterKey(key) ==
    LET timeSinceLastKey == now - lastKeyTimeRef
        newSeq == typed = <<>> \/ timeSinceLastKey > SilenceThreshold
    IN  /\ scanBufferRef' = Append(BufferAfterSilenceCheck(timeSinceLastKey), key)
        /\ currentScan' = scanBufferRef'
        /\ lastKeyTimeRef' = now
        /\ timers' = TimersAfterClear \cup {AutoSaveTimer}
        /\ autoSaveTimeoutRef' = AutoSaveTimer.id
        /\ UNCHANGED <<queuedItems, message, dismissPending>>
        /\ lastHanded' = <<>>
        /\ typed' = IF newSeq THEN <<key>> ELSE Append(typed, key)
        /\ handed' = IF newSeq THEN <<>> ELSE handed
        /\ seqGap' = IF newSeq THEN 0 ELSE Max(seqGap, timeSinceLastKey)
        /\ startedEmpty' = IF newSeq THEN scanBufferRef = <<>> ELSE startedEmpty

\* a key event the handler returns from without doing anything
IgnoredKey ==
    /\ UNCHANGED <<queuedItems, message, dismissPending,
                   scanBufferRef, currentScan,
                   lastKeyTimeRef, autoSaveTimeoutRef, timers>>
    /\ lastHanded' = <<>>
    /\ SeqSame

\* the keys of the model: characters, Enter, and a non-printing key
Keys == Chars \cup {"Enter", "Shift"}

\* e.key.length === 1
IsCharacter(key) == key \in Chars

\* the bounds on what is typed: the list, the buffer and the typed sequence
\* stay within MaxItems and MaxBuf
TypingWithinBounds(key) ==
    key \in Chars =>
        /\ Len(queuedItems) < MaxItems
        /\ Len(BufferAfterSilenceCheck(now - lastKeyTimeRef)) < MaxBuf
        /\ \/ now - lastKeyTimeRef > SilenceThreshold
           \/ Len(typed) < MaxBuf

\* the listener without its guard
ListenerAlwaysEnabled == TRUE

\* the listener's guard: if (!isScanning) return
ListenerEnabled == isScanning

\* handleGlobalKeyDown(e), e.key = key, modifier = e.ctrlKey || e.metaKey || e.altKey
handleGlobalKeyDown(key, modifier) ==
    /\ variant = "globalListener"
    /\ mounted
    /\ TypingWithinBounds(key)
    /\ IF ~ListenerEnabled THEN IgnoredKey
       ELSE IF key = "Enter" THEN EnterKey
       ELSE IF IsCharacter(key) /\ ~modifier THEN CharacterKey(key)
       ELSE IgnoredKey
    /\ lastEvent' = KeyKind(modifier)
    /\ lastKey' = key
    /\ written' = NoFile
    /\ UNCHANGED <<variant, mounted, now, scannedItems, isScanning,
                   queuedScanning, scannedItemsRef, scannerRef, decoders,
                   stopAwait>>

\* the callback of the 200 ms auto-save timer t
AutoSaveTimeout(t) ==
    /\ variant = "globalListener"
    /\ t \in timers
    /\ now >= t.due
    /\ IF scanBufferRef # <<>>
       THEN /\ saveScannedBarcode(scanBufferRef, timers \ {t})
            /\ Event("timer", <<scanBufferRef>>)
       ELSE /\ timers' = timers \ {t}
            /\ UNCHANGED <<queuedItems, message, dismissPending,
                           scanBufferRef, currentScan,
                           autoSaveTimeoutRef>>
            /\ Event("timer", <<>>)
    /\ SeqKeep
    /\ UNCHANGED <<variant, mounted, now, scannedItems, isScanning,
                   queuedScanning, scannedItemsRef, lastKeyTimeRef, scannerRef,
                   decoders, stopAwait>>

---------------------------------------------------------------------------
(* enterOnly revision: page.tsx 1-217, and the camera revision's
   handleScanSuccess, which is the same function *)

\* handleScanSuccess(serialNumber); closureSerials are the serial numbers of
\* the scannedItems of the render that created the function, all it reads of
\* them
handleScanSuccess(serialNumber, closureSerials) ==
    IF \E i \in 1..Len(closureSerials) : closureSerials[i] = serialNumber
    THEN /\ message' = SetState(message, DuplicateMessage(serialNumber))
         /\ UNCHANGED <<queuedItems, dismissPending>>   \* return, no setTimeout
    ELSE /\ queuedItems' =
                SetState(queuedItems, Append(queuedItems, NewItem(serialNumber)))
         /\ message' = SetState(message, ScannedMessage(serialNumber))
         /\ dismissPending' = TRUE      \* setTimeout(..., 2000)

\* the input's onChange: setCurrentScan(e.target.value), one more character
inputChange(key) ==
    /\ variant = "enterOnly"
    /\ mounted
    /\ isScanning                       \* disabled={!isScanning}
    /\ Len(queuedItems) < MaxItems
    /\ Len(currentScan) < MaxBuf
    /\ currentScan' = Append(currentScan, key)
    /\ KeyEvent("input", key, <<>>)
    /\ UNCHANGED <<variant, mounted, now, scannedItems, queuedItems, isScanning,
                   queuedScanning, message, dismissPending, scanBufferRef, lastKeyTimeRef,
                   scannedItemsRef, autoSaveTimeoutRef, timers, scannerRef,
                   decoders, stopAwait>>
    /\ SeqSame

\* handleInputKeyDown(e) of the enterOnly revision
handleInputKeyDown(key) ==
    /\ variant = "enterOnly"
    /\ mounted
    /\ IF ~isScanning
       THEN /\ UNCHANGED <<queuedItems, message, dismissPending, currentScan>>
            /\ KeyEvent("key", key, <<>>)
       ELSE IF key = "Enter" /\ Trim(currentScan) # <<>>
       THEN /\ handleScanSuccess(Trim(currentScan), SerialsOf(scannedItems))
            /\ currentScan' = <<>>
            /\ KeyEvent("key", key, <<Trim(currentScan)>>)
       ELSE /\ UNCHANGED <<queuedItems, message, dismissPending, currentScan>>
            /\ KeyEvent("key", key, <<>>)
    /\ UNCHANGED <<variant, mounted, now, scannedItems, isScanning,
                   queuedScanning, scanBufferRef, lastKeyTimeRef,
                   scannedItemsRef, autoSaveTimeoutRef, timers, scannerRef,
                   decoders, stopAwait>>
    /\ SeqSame

---------------------------------------------------------------------------
(* debounce revision: page.tsx 546-778 *)

\* saveScannedBarcode(scannedValue) with the updater form of setScannedItems;
\* the updater sees the latest queued list
saveScannedBarcodeUpdater(scannedValue) ==
    IF Trim(scannedValue) = <<>> \/ ~mounted
    THEN UNCHANGED <<queuedItems, message, dismissPending, currentScan>>
    ELSE /\ IF HasSerial(queuedItems, Trim(scannedValue))
            THEN /\ message' = DuplicateMessage(Trim(scannedValue))
                 /\ UNCHANGED queuedItems
            ELSE /\ queuedItems' = Append(queuedItems, NewItem(Trim(scannedValue)))
                 /\ message' = ScannedMessage(Trim(scannedValue))
         /\ dismissPending' = TRUE      \* setTimeout(..., 2000), both branches
         /\ currentScan' = <<>>

\* the timer the input's onChange sets; its callback keeps value
DebounceTimer(value) ==
    [id |-> FreshTimerId, due |-> now + DebounceTimeout, value |-> value,
     paused |-> FALSE]

\* the input's onChange, one more character typed into it
onChange(key) ==
    /\ variant = "debounce"
    /\ mounted
    /\ isScanning                       \* disabled={!isScanning}
    /\ Len(queuedItems) < MaxItems
    /\ Len(currentScan) < MaxBuf
    /\ currentScan' = Append(currentScan, key)
    /\ timers' = ClearTimeout(timers, autoSaveTimeoutRef)
                    \cup {DebounceTimer(Append(currentScan, key))}
    /\ autoSaveTimeoutRef' = DebounceTimer(Append(currentScan, key)).id
    /\ KeyEvent("input", key, <<>>)
    /\ UNCHANGED <<variant, mounted, now, scannedItems, queuedItems, isScanning,
                   queuedScanning, message, dismissPending, scanBufferRef, lastKeyTimeRef,
                   scannedItemsRef, scannerRef, decoders, stopAwait>>
    /\ SeqSame

\* the callback of the 300 ms timer t
DebounceTimeoutFires(t) ==
    /\ variant = "debounce"
    /\ t \in timers
    /\ now >= t.due
    /\ timers' = timers \ {t}
    /\ IF Trim(t.value) # <<>>
       THEN /\ saveScannedBarcodeUpdater(t.value)
            /\ Event("timer", <<t.value>>)
       ELSE /\ UNCHANGED <<queuedItems, message, dismissPending, currentScan>>
            /\ Event("timer", <<>>)
    /\ UNCHANGED <<variant, mounted, now, scannedItems, isScanning,
                   queuedScanning, scanBufferRef, lastKeyTimeRef,
                   scannedItemsRef, autoSaveTimeoutRef, scannerRef, decoders,
                   stopAwait>>
    /\ SeqSame

---------------------------------------------------------------------------
(* camera revision: part_000 *)

\* what the decoder can read
DecodedTexts == {<<"a">>, <<"a", " ">>}

CameraFailedMessage == [type |-> "error", kind |-> "camera", serial |-> <<>>]

Decoder(id) == CHOOSE d \in decoders : d.id = id
IsRunning(id) == \E d \in decoders : d.id = id /\ d.state = "running"

\* new Html5Qrcode(qrCodeRegionId): an instance that is not alive yet.  (The
\* id of an instance that is gone may come back: startScanning overwrites
\* scannerRef with the new instance.)
FreshDecoderId ==
    CHOOSE i \in 1..(Cardinality(decoders) + 1) : \A d \in decoders : d.id # i

\* startScanning up to its await: the decode callback keeps the
\* handleScanSuccess, and so the scannedItems, of the render that made it
startScanning ==
    /\ variant = "camera"
    /\ mounted
    /\ ~isScanning                      \* the Start button is rendered
    /\ Cardinality(decoders) < MaxDecoders
    /\ message' = NoMessage
    /\ UNCHANGED dismissPending
    /\ scannerRef' = FreshDecoderId
    /\ decoders' = decoders \cup
            {[id |-> FreshDecoderId, state |-> "starting",
              closureSerials |-> SerialsOf(scannedItems)]}
    /\ Event("start", <<>>)
    /\ UNCHANGED <<variant, mounted, now, scannedItems, queuedItems, isScanning,
                   queuedScanning, currentScan, scanBufferRef, lastKeyTimeRef,
                   scannedItemsRef, autoSaveTimeoutRef, timers, stopAwait>>
    /\ SeqSame

\* html5QrCode.start(...) resolves: setIsScanning(true)
startResolved(id) ==
    /\ variant = "camera"
    /\ \E d \in decoders : d.id = id /\ d.state = "starting"
    /\ decoders' = (decoders \ {Decoder(id)})
                      \cup {[Decoder(id) EXCEPT !.state = "running"]}
    /\ queuedScanning' = SetState(queuedScanning, TRUE)
    /\ Event("started", <<>>)
    /\ UNCHANGED <<variant, mounted, now, scannedItems, queuedItems, isScanning,
                   message, dismissPending, currentScan, scanBufferRef, lastKeyTimeRef,
                   scannedItemsRef, autoSaveTimeoutRef, timers, scannerRef,
                   stopAwait>>
    /\ SeqSame

\* html5QrCode.start(...) rejects: the catch block
startRejected(id) ==
    /\ variant = "camera"
    /\ \E d \in decoders : d.id = id /\ d.state = "starting"
    /\ decoders' = decoders \ {Decoder(id)}
    /\ message' = SetState(message, CameraFailedMessage)
    /\ UNCHANGED dismissPending         \* the catch block sets no timeout
    /\ queuedScanning' = SetState(queuedScanning, FALSE)
    /\ Event("startFailed", <<>>)
    /\ UNCHANGED <<variant, mounted, now, scannedItems, queuedItems, isScanning,
                   currentScan, scanBufferRef, lastKeyTimeRef, scannedItemsRef,
                   autoSaveTimeoutRef, timers, scannerRef, stopAwait>>
    /\ SeqSame

\* the decode callback of a running decoder: handleScanSuccess(decodedText)
decodeCallback(id, decodedText) ==
    /\ variant = "camera"
    /\ IsRunning(id)
    /\ Len(queuedItems) < MaxItems
    /\ handleScanSuccess(decodedText, Decoder(id).closureSerials)
    /\ Event("decode", <<decodedText>>)
    /\ UNCHANGED <<variant, mounted, now, scannedItems, isScanning,
                   queuedScanning, currentScan, scanBufferRef, lastKeyTimeRef,
                   scannedItemsRef, autoSaveTimeoutRef, timers, scannerRef,
                   decoders, stopAwait>>
    /\ SeqSame

\* stopScanning up to its await.  stop() of an instance that is not running
\* throws, and the catch block only logs
stopScanning ==
    /\ variant = "camera"
    /\ mounted
    /\ isScanning                       \* the Stop button is rendered
    /\ stopAwait = NoScanner
    /\ IF scannerRef = NoScanner
       THEN /\ queuedScanning' = FALSE
            /\ UNCHANGED <<decoders, stopAwait>>
       ELSE IF IsRunning(scannerRef)
       THEN /\ decoders' = (decoders \ {Decoder(scannerRef)})
                  \cup {[Decoder(scannerRef) EXCEPT !.state = "stopping"]}
            /\ stopAwait' = scannerRef
            /\ UNCHANGED queuedScanning
       ELSE UNCHANGED <<queuedScanning, decoders, stopAwait>>
    /\ Event("stop", <<>>)
    /\ UNCHANGED <<variant, mounted, now, scannedItems, queuedItems, isScanning,
                   message, dismissPending, currentScan, scanBufferRef, lastKeyTimeRef,
                   scannedItemsRef, autoSaveTimeoutRef, timers, scannerRef>>
    /\ SeqSame

\* stop() resolves: scannerRef.current.clear(); scannerRef.current = null;
\* setIsScanning(false).  clear() throws when scannerRef.current is null by
\* then or names an instance that is scanning
stopResolved ==
    /\ variant = "camera"
    /\ stopAwait # NoScanner
    /\ decoders' = {d \in decoders : d.id # stopAwait}
    /\ stopAwait' = NoScanner
    /\ IF scannerRef = NoScanner \/ (scannerRef # stopAwait /\ IsRunning(scannerRef))
       THEN UNCHANGED <<scannerRef, queuedScanning>>
       ELSE /\ scannerRef' = NoScanner
            /\ queuedScanning' = SetState(queuedScanning, FALSE)
    /\ Event("stopped", <<>>)
    /\ UNCHANGED <<variant, mounted, now, scannedItems, queuedItems, isScanning,
                   message, dismissPending, currentScan, scanBufferRef, lastKeyTimeRef,
                   scannedItemsRef, autoSaveTimeoutRef, timers>>
    /\ SeqSame

\* stop() rejects: the catch block only logs.  Whether the instance still
\* scans after a failed stop is the library's matter: both outcomes
stopRejected ==
    /\ variant = "camera"
    /\ stopAwait # NoScanner
    /\ \/ decoders' = (decoders \ {Decoder(stopAwait)})
                          \cup {[Decoder(stopAwait) EXCEPT !.state = "running"]}
       \/ decoders' = {d \in decoders : d.id # stopAwait}
    /\ stopAwait' = NoScanner
    /\ Event("stopFailed", <<>>)
    /\ UNCHANGED <<variant, mounted, now, scannedItems, queuedItems, isScanning,
                   queuedScanning, message, dismissPending, currentScan,
                   scanBufferRef, lastKeyTimeRef, scannedItemsRef,
                   autoSaveTimeoutRef, timers, scannerRef>>
    /\ SeqSame

---------------------------------------------------------------------------
(* What the revisions share *)

\* toggleScanning of the three keyboard revisions (page.tsx 49-56, 374-383,
\* 610-617): all queue the flip, the later two also reset the pending scan
toggleScanning ==
    /\ variant \in {"enterOnly", "globalListener", "debounce"}
    /\ mounted
    /\ queuedScanning' = ~queuedScanning
    /\ scanBufferRef' = IF variant = "globalListener" THEN <<>> ELSE scanBufferRef
    /\ currentScan' = IF variant = "enterOnly" THEN currentScan ELSE <<>>
    /\ timers' = IF queuedScanning
                 THEN {[t EXCEPT !.paused = TRUE] : t \in timers}
                 ELSE timers
    /\ Event("toggle", <<>>)
    /\ SeqReset
    /\ UNCHANGED <<variant, mounted, now, scannedItems, queuedItems, isScanning,
                   message, dismissPending, lastKeyTimeRef, scannedItemsRef, autoSaveTimeoutRef,
                   scannerRef, decoders, stopAwait>>

\* removeItem(id), from the button of a rendered item
removeItem(id) ==
    /\ mounted
    /\ \E i \in 1..Len(scannedItems) : scannedItems[i].id = id
    /\ queuedItems' = FilterOutId(queuedItems, id)
    /\ Event("remove", <<>>)
    /\ UNCHANGED <<variant, mounted, now, scannedItems, isScanning,
                   queuedScanning, message, dismissPending, currentScan, scanBufferRef,
                   lastKeyTimeRef, scannedItemsRef, autoSaveTimeoutRef, timers,
                   scannerRef, decoders, stopAwait>>
    /\ SeqSame

\* clearAll(), from the button rendered while the list is not empty;
\* confirmed is the answer to confirm(...)
clearAll(confirmed) ==
    /\ mounted
    /\ Len(scannedItems) > 0
    /\ IF confirmed
       THEN /\ queuedItems' = <<>>
            /\ message' = ClearedMessage
            /\ dismissPending' = TRUE   \* setTimeout(..., 2000)
       ELSE UNCHANGED <<queuedItems, message, dismissPending>>
    /\ Event(IF confirmed THEN "clear" ELSE "clearDeclined", <<>>)
    /\ UNCHANGED <<variant, mounted, now, scannedItems, isScanning,
                   queuedScanning, currentScan, scanBufferRef, lastKeyTimeRef,
                   scannedItemsRef, autoSaveTimeoutRef, timers, scannerRef,
                   decoders, stopAwait>>
    /\ SeqSame

\* a callback setTimeout(() => setMessage(null), ...) runs.  The delays (2000
\* and 3000 ms) are beyond the clock's range and are left out: the callback
\* may run at any later step, and it may or may not have been the last one
\* outstanding
DismissTimeout ==
    /\ dismissPending
    /\ message' = SetState(message, NoMessage)
    /\ dismissPending' \in BOOLEAN
    /\ Event("dismiss", <<>>)
    /\ UNCHANGED <<variant, mounted, now, scannedItems, queuedItems, isScanning,
                   queuedScanning, currentScan, scanBufferRef, lastKeyTimeRef,
                   scannedItemsRef, autoSaveTimeoutRef, timers, scannerRef,
                   decoders, stopAwait>>
    /\ SeqSame

\* item.timestamp.toLocaleString(): date and time to the second
ToLocaleString(timestamp) == timestamp \div 1000

\* the header row of the sheet
ExportHeader ==
    IF variant = "debounce" THEN <<"Count", "Serial Number">>
    ELSE <<"Serial Number", "Timestamp">>

\* the row with the count taken as map's index, from 0
ExportRowCountFromZero(item, index) ==
    IF variant = "debounce" THEN <<index, item.serialNumber>>
    ELSE <<item.serialNumber, ToLocaleString(item.timestamp)>>

\* the row of the index-th item (index counted from 0, as map counts)
ExportRow(item, index) ==
    IF variant = "debounce" THEN <<index + 1, item.serialNumber>>
    ELSE <<item.serialNumber, ToLocaleString(item.timestamp)>>

\* data: the header row and one row for each item
ExportRows(items) ==
    <<ExportHeader>> \o [i \in 1..Len(items) |-> ExportRow(items[i], i - 1)]

\* downloadExcel() of the render whose list is scannedItems
downloadExcelCalled ==
    /\ mounted
    /\ IF Len(scannedItems) = 0
       THEN /\ message' = EmptyExportMessage
            /\ written' = NoFile
            /\ UNCHANGED dismissPending  \* return, no setTimeout
       ELSE /\ written' = ExportRows(scannedItems)
            /\ message' = DownloadedMessage
            /\ dismissPending' = TRUE   \* setTimeout(..., 3000)
    /\ lastEvent' = "export"
    /\ lastKey' = "none"
    /\ lastHanded' = <<>>
    /\ UNCHANGED <<variant, mounted, now, scannedItems, queuedItems, isScanning,
                   queuedScanning, currentScan, scanBufferRef, lastKeyTimeRef,
                   scannedItemsRef, autoSaveTimeoutRef, timers, scannerRef,
                   decoders, stopAwait>>
    /\ SeqSame

\* downloadExcel(), from the button rendered while the list is not empty
downloadExcel ==
    /\ Len(scannedItems) > 0
    /\ downloadExcelCalled

\* React commits the queued updates: the rendered values change, the effect
\* on [scannedItems] copies the list into scannedItemsRef (page.tsx 241-244),
\* and when isScanning changed the cleanup of the listener effect clears the
\* auto-save timer (page.tsx 358-364) before the listener is added again
Commit ==
    /\ mounted
    /\ queuedItems # scannedItems \/ queuedScanning # isScanning
    /\ scannedItems' = queuedItems
    /\ isScanning' = queuedScanning
    /\ scannedItemsRef' = IF variant = "globalListener" THEN queuedItems
                          ELSE scannedItemsRef
    /\ timers' = IF variant = "globalListener" /\ queuedScanning # isScanning
                 THEN ClearTimeout(timers, autoSaveTimeoutRef)
                 ELSE timers
    /\ UNCHANGED <<variant, mounted, now, queuedItems, queuedScanning, message, dismissPending,
                   currentScan, scanBufferRef, lastKeyTimeRef,
                   autoSaveTimeoutRef, scannerRef, decoders, stopAwait>>
    /\ Event("commit", <<>>)
    /\ SeqSame

\* the component unmounts: the effect cleanups run (page.tsx 358-364,
\* part_000 20-27)
Unmount ==
    /\ mounted
    /\ mounted' = FALSE
    /\ timers' = IF variant = "globalListener"
                 THEN ClearTimeout(timers, autoSaveTimeoutRef)
                 ELSE timers
    /\ decoders' = IF variant = "camera" /\ scannerRef # NoScanner
                   THEN {d \in decoders : ~(d.id = scannerRef /\ d.state = "running")}
                   ELSE decoders
    /\ Event("unmount", <<>>)
    /\ UNCHANGED <<variant, now, scannedItems, queuedItems, isScanning,
                   queuedScanning, message, dismissPending, currentScan, scanBufferRef,
                   lastKeyTimeRef, scannedItemsRef, autoSaveTimeoutRef,
                   scannerRef, stopAwait>>
    /\ SeqSame

---------------------------------------------------------------------------
(* One specification for each revision, and one for all of them *)

Shared ==
    \/ Tick
    \/ Commit
    \/ Unmount
    \/ \E i \in 1..Len(scannedItems) : removeItem(scannedItems[i].id)
    \/ \E confirmed \in BOOLEAN : clearAll(confirmed)
    \/ downloadExcel
    \/ DismissTimeout

NextEnterOnly ==
    \/ Shared
    \/ toggleScanning
    \/ \E key \in Chars : inputChange(key)
    \/ \E key \in Keys : handleInputKeyDown(key)

NextGlobalListener ==
    \/ Shared
    \/ toggleScanning
    \/ \E key \in Keys, modifier \in BOOLEAN : handleGlobalKeyDown(key, modifier)
    \/ \E t \in timers : AutoSaveTimeout(t)

NextDebounce ==
    \/ Shared
    \/ toggleScanning
    \/ \E key \in Chars : onChange(key)
    \/ \E t \in timers : DebounceTimeoutFires(t)

\* the camera revision with one decoder instance alive at a time: Start is
\* not pressed again while an instance is starting, running or stopping
NextCamera ==
    \/ Shared
    \/ (decoders = {} /\ startScanning)
    \/ \E d \in decoders : startResolved(d.id)
    \/ \E d \in decoders : startRejected(d.id)
    \/ \E d \in decoders, text \in DecodedTexts : decodeCallback(d.id, text)
    \/ stopScanning
    \/ stopResolved
    \/ stopRejected

Init == InitOf(Variants)
Next == NextEnterOnly \/ NextGlobalListener \/ NextDebounce \/ NextCamera

Spec == Init /\ [][Next]_vars
SpecEnterOnly == InitOf({"enterOnly"}) /\ [][NextEnterOnly]_vars
SpecGlobalListener == InitOf({"globalListener"}) /\ [][NextGlobalListener]_vars
SpecDebounce == InitOf({"debounce"}) /\ [][NextDebounce]_vars
SpecCamera == InitOf({"camera"}) /\ [][NextCamera]_vars

\* the camera session alone, with up to MaxDecoders instances alive: Start
\* and Stop pressed in any order the rendered buttons allow, every outcome
\* of start() and stop(), and the decodes of the running instances
NextCameraSession ==
    \/ Commit
    \/ Unmount
    \/ startScanning
    \/ \E d \in decoders : startResolved(d.id)
    \/ \E d \in decoders : startRejected(d.id)
    \/ \E d \in decoders, text \in DecodedTexts : decodeCallback(d.id, text)
    \/ stopScanning
    \/ stopResolved
    \/ stopRejected

SpecCameraSession == InitOf({"camera"}) /\ [][NextCameraSession]_vars

\* the three keyboard revisions side by side
NextKeyboard == NextEnterOnly \/ NextGlobalListener \/ NextDebounce
SpecKeyboard ==
    InitOf({"enterOnly", "globalListener", "debounce"}) /\ [][NextKeyboard]_vars

---------------------------------------------------------------------------
(* downloadExcel as a function of the list of the render it belongs to *)

\* serial numbers of the lists exported
ExportSerials == {<<"a">>, <<"a", "a">>, <<"a", " ", "a">>}

\* the values Date.now() takes within the clock's range
ClockValues == {StartNow + 300 * k : k \in 0..MaxTicks}

\* records as handleScanSuccess and saveScannedBarcode make them
ExportRecords ==
    {[id |-> t, serialNumber |-> sn, timestamp |-> t] :
        t \in ClockValues, sn \in ExportSerials}

\* lists of up to MaxItems records, of distinct serial numbers, in the order
\* of their creation
ExportLists ==
    UNION {{items \in [1..n -> ExportRecords] :
                \A i, j \in 1..n :
                    i < j => /\ items[i].serialNumber # items[j].serialNumber
                             /\ items[i].id <= items[j].id} :
           n \in 0..MaxItems}

\* a committed render of any revision, with any such list, a scan that may be
\* in progress, and the session on or off
InitExport ==
    /\ variant \in Variants
    /\ mounted = TRUE
    /\ now = StartNow + 300 * MaxTicks
    /\ scannedItems \in ExportLists
    /\ queuedItems = scannedItems
    /\ isScanning \in BOOLEAN
    /\ queuedScanning = isScanning
    /\ message = NoMessage
    /\ dismissPending = FALSE
    /\ written = NoFile
    /\ currentScan \in IF variant = "camera" \/ ~isScanning
                        THEN {<<>>} ELSE {<<>>, <<"a">>}
    /\ scanBufferRef = IF variant = "globalListener" THEN currentScan ELSE <<>>
    /\ lastKeyTimeRef = InitialLastKeyTime
    /\ scannedItemsRef = IF variant = "globalListener" THEN scannedItems ELSE <<>>
    /\ autoSaveTimeoutRef = NoTimer
    /\ timers = {}
    /\ scannerRef = NoScanner
    /\ decoders = {}
    /\ stopAwait = NoScanner
    /\ lastEvent = "init"
    /\ lastKey = "none"
    /\ lastHanded = <<>>
    /\ typed = <<>>
    /\ handed = <<>>
    /\ seqGap = 0
    /\ startedEmpty = TRUE

NextExport == downloadExcelCalled

SpecExport == InitExport /\ [][NextExport]_vars

---------------------------------------------------------------------------
(* The claims *)

\* C1: in every reachable state no two records of the list have the same
\* serial number (exact comparison of the stored, trimmed values).
C1_UniqueSerials ==
    \A i, j \in 1..Len(scannedItems) :
        i # j => scannedItems[i].serialNumber # scannedItems[j].serialNumber

\* the step is the handling of an Enter keydown by the enabled listener
EnterStep ==
    /\ lastEvent' \in {"key", "keyMod"}
    /\ lastKey' = "Enter"
    /\ isScanning

\* the step is the acceptance of a character by the enabled listener
CharacterStep ==
    /\ lastEvent' = "key"
    /\ lastKey' \in Chars
    /\ isScanning

\* the candidates passed on for the typed sequence, this step's included
HandedAfter == handed \o lastHanded'

TimerStep == lastEvent' = "timer"

C4_PausedTimerRecordsNothing ==
    [][ (TimerStep /\ ~isScanning /\ \E t \in timers \ timers' : t.paused)
        => queuedItems' = queuedItems ]_vars

\* C5: right after the enabled listener handled Enter the buffer is empty.
C5_BufferEmptyAfterEnter ==
    (lastEvent \in {"key", "keyMod"} /\ lastKey = "Enter" /\ isScanning)
        => scanBufferRef = <<>>

\* C6: right after an auto-save timer fired the buffer is empty.
C6_BufferEmptyAfterTimer ==
    (variant = "globalListener" /\ lastEvent = "timer") => scanBufferRef = <<>>

\* C7: while the session is not enabled, the handling of a key event leaves
\* the pending scan, the last-character time, the auto-save timer and the
\* list unchanged.
C7_DisabledKeysIgnored ==
    [][ (lastEvent' \in {"key", "keyMod"} /\ ~isScanning)
        => UNCHANGED <<scanBufferRef, currentScan, lastKeyTimeRef,
                       autoSaveTimeoutRef, timers, scannedItems, queuedItems,
                       message>> ]_vars

\* a character has just reached the disabled global listener, the list and
\* the last-character time holding earlier values
C7_Witness ==
    /\ variant = "globalListener"
    /\ lastEvent = "key" /\ lastKey = "a"
    /\ ~isScanning
    /\ scannedItems # <<>>
    /\ lastKeyTimeRef # InitialLastKeyTime
    /\ now - lastKeyTimeRef > SilenceThreshold

\* C8: when the enabled listener accepts a character, the buffer becomes
\* that character alone if more than the silence threshold has passed since
\* the last accepted character, and its previous content with the character
\* appended otherwise; the last-character time becomes the time of the event.
C8_CharacterAccepted ==
    [][ CharacterStep
        => /\ scanBufferRef' =
                IF now - lastKeyTimeRef > SilenceThreshold
                THEN <<lastKey'>>
                ELSE Append(scanBufferRef, lastKey')
           /\ lastKeyTimeRef' = now ]_vars

\* a character has just replaced what the buffer held, left there for 600 ms
C8_Witness ==
    /\ variant = "globalListener"
    /\ lastEvent = "key" /\ lastKey = "a"
    /\ isScanning
    /\ scanBufferRef = <<"a">>
    /\ typed = <<"a">>
    /\ ~startedEmpty
    /\ lastKeyTimeRef = now

\* C9: at most one auto-save timer is outstanding, the one whose handle the
\* ref holds.
C9_OneTimerOutstanding ==
    /\ Cardinality(timers) <= 1
    /\ \A t \in timers : t.id = autoSaveTimeoutRef

\* a second character has replaced the timer of the first
C9_Witness ==
    /\ variant = "globalListener"
    /\ lastEvent = "key"
    /\ Len(typed) = 2
    /\ seqGap = 300
    /\ Cardinality(timers) = 1

\* C10: no auto-save timer is outstanding right after the enabled listener
\* handled Enter, after the commit that disables the listener, or after the
\* component is torn down.
C10_NoTimerAfterFlushDisableTeardown ==
    (\/ lastEvent \in {"key", "keyMod"} /\ lastKey = "Enter" /\ isScanning
     \/ lastEvent = "commit" /\ ~isScanning
     \/ lastEvent = "unmount")
    => timers = {}

\* the step passes one candidate that is not blank to the save function of
\* the mounted component
RecordStep == mounted /\ Len(lastHanded') = 1 /\ Trim(lastHanded'[1]) # <<>>

\* C11: recording a non-blank candidate leaves the list as it is and reports
\* a duplicate naming the serial number when the list already holds a record
\* of that serial number, and otherwise appends exactly one new record of
\* it at the end.
C11_RecordAppendsOrRejects ==
    [][ RecordStep
        => IF HasSerial(queuedItems, Trim(lastHanded'[1]))
           THEN /\ queuedItems' = queuedItems
                /\ message' = DuplicateMessage(Trim(lastHanded'[1]))
           ELSE queuedItems' =
                    Append(queuedItems, NewItem(Trim(lastHanded'[1]))) ]_vars

\* the records of the list whose serial number is the candidate or its trim
RecordsOf(items, candidate) ==
    {i \in 1..Len(items) :
        items[i].serialNumber \in {candidate, Trim(candidate)}}

\* C12: when two steps in a row record the same non-blank candidate, the
\* second one leaves the list unchanged and reports a duplicate, and the list
\* holds exactly one record of it.
C12_SecondRecordIsDuplicate ==
    [][ (RecordStep /\ lastHanded' = lastHanded)
        => /\ queuedItems' = queuedItems
           /\ message'.kind = "duplicate"
           /\ Cardinality(RecordsOf(queuedItems', lastHanded[1])) = 1 ]_vars

\* C13: the records of the list carry identifiers that increase strictly
\* with the position in the list, so that no two records (here: of different
\* serial numbers) share an identifier.
C13_IdentifiersIncrease ==
    \A i, j \in 1..Len(scannedItems) :
        (i < j /\ scannedItems[i].serialNumber # scannedItems[j].serialNumber)
            => scannedItems[i].id < scannedItems[j].id

\* C14: the serial number of every record of the list is non-empty and has
\* no leading or trailing white space.
C14_SerialsTrimmed ==
    \A i \in 1..Len(scannedItems) :
        /\ scannedItems[i].serialNumber # <<>>
        /\ Trim(scannedItems[i].serialNumber) = scannedItems[i].serialNumber

\* items without its k-th record
WithoutRecord(items, k) ==
    SubSeq(items, 1, k - 1) \o SubSeq(items, k + 1, Len(items))

\* no two records of items have the same serial number
SerialsDistinct(items) ==
    \A i, j \in 1..Len(items) :
        i # j => items[i].serialNumber # items[j].serialNumber

\* C15: a removal leaves the list (here: one of distinct serial numbers) as
\* it was or takes exactly one record out of it, the other records staying
\* unchanged and in the same order.
C15_RemoveTakesOneRecord ==
    [][ (lastEvent' = "remove" /\ SerialsDistinct(queuedItems))
        => \/ queuedItems' = queuedItems
           \/ \E k \in 1..Len(queuedItems) :
                 queuedItems' = WithoutRecord(queuedItems, k) ]_vars

\* C16: a toggle of the session leaves the list unchanged and the pending
\* scan (the scan buffer and the input's value) empty.
C16_ToggleResetsPendingScan ==
    [][ lastEvent' = "toggle"
        => /\ queuedItems' = queuedItems
           /\ scanBufferRef' = <<>>
           /\ currentScan' = <<>> ]_vars

\* items without the records that carry the identifier id
WithoutId(items, id) ==
    LET Keeps(item) == item.id # id
    IN  SelectSeq(items, Keeps)

\* items is the beginning of longer
IsPrefix(items, longer) ==
    /\ Len(items) <= Len(longer)
    /\ SubSeq(longer, 1, Len(items)) = items

\* C17: the records of the list stay in it, unchanged and in place, in every
\* step but a removal, which takes out the records carrying the identifier
\* of a rendered item, and a confirmed clear; the rendered list changes only
\* by taking over the list at a commit.
C17_RecordsStay ==
    [][ /\ lastEvent' \notin {"remove", "clear"}
            => IsPrefix(queuedItems, queuedItems')
        /\ lastEvent' = "remove"
            => \E i \in 1..Len(scannedItems) :
                 queuedItems' = WithoutId(queuedItems, scannedItems[i].id)
        /\ lastEvent' = "clear" => queuedItems' = <<>>
        /\ scannedItems' \in {scannedItems, queuedItems} ]_vars

\* one of two records has just been removed, the other one is still there
C17_Witness ==
    /\ lastEvent = "remove"
    /\ Len(scannedItems) = 2
    /\ Len(queuedItems) = 1
    /\ queuedItems[1] \in {scannedItems[1], scannedItems[2]}

\* the step is a flush: Enter, the firing of the timer, or a camera decode
FlushStep == EnterStep \/ TimerStep \/ lastEvent' = "decode"

\* the step is a key event other than Enter (a character or a non-printing
\* key, with or without a modifier held)
TypingStep ==
    /\ lastEvent' \in {"key", "keyMod", "input"}
    /\ lastKey' # "Enter"

\* C18: a key event other than Enter changes neither the list nor what is
\* rendered of it; the list changes only in a flush (Enter, the firing of
\* the timer, a camera decode), a removal or a clear; and a flush that
\* changes the list appends one record whose serial number is the whole
\* candidate (trimmed by the keyboard revisions), which for the global
\* listener is the whole buffer, left empty by the step, so that no record
\* is made of a part of the scan being typed.
C18_OnlyFlushWritesWholeCandidate ==
    [][ /\ TypingStep
            => queuedItems' = queuedItems /\ scannedItems' = scannedItems
        /\ queuedItems' # queuedItems
            => FlushStep \/ lastEvent' \in {"remove", "clear"}
        /\ (FlushStep /\ queuedItems' # queuedItems)
            => /\ Len(queuedItems') = Len(queuedItems) + 1
               /\ IsPrefix(queuedItems, queuedItems')
               /\ Len(lastHanded') = 1
               /\ queuedItems'[Len(queuedItems')].serialNumber
                      = IF variant = "camera" THEN lastHanded'[1]
                        ELSE Trim(lastHanded'[1])
               /\ variant = "globalListener"
                      => lastHanded'[1] = scanBufferRef /\ scanBufferRef' = <<>>
      ]_vars

\* a flush has just recorded a scan of two characters, typed one by one
C18_Witness ==
    /\ lastEvent \in {"key", "timer"}
    /\ lastHanded = <<<<"a", "a">>>>
    /\ Len(queuedItems) = 1
    /\ queuedItems[1].serialNumber = <<"a", "a">>
    /\ scannedItems = <<>>
    /\ scanBufferRef = <<>>

\* C19: an error message on the screen is dismissed without a further event:
\* while the mounted component shows it, a timeout that will clear it is
\* outstanding.
C19_ErrorHasDismissTimer ==
    (mounted /\ message.type = "error") => dismissPending

\* the session, the scan in progress and the list, rendered and queued
SessionState ==
    <<scannedItems, queuedItems, currentScan, scanBufferRef, isScanning,
      queuedScanning, lastKeyTimeRef, timers, scannerRef, decoders>>

\* C20: an export of the empty list shows an error and writes no file; an
\* export of n >= 1 records writes a header row of two columns followed by
\* exactly n rows, the i-th carrying the serial number of the i-th record
\* of the list, with the count i in the debounce revision and the record's
\* formatted timestamp in the others; the export changes neither the list
\* nor the scan in progress nor the session.
C20_ExportWritesTheList ==
    [][ lastEvent' = "export"
        => /\ UNCHANGED SessionState
           /\ IF Len(scannedItems) = 0
              THEN message'.type = "error" /\ written' = NoFile
              ELSE /\ Len(written') = Len(scannedItems) + 1
                   /\ Len(written'[1]) = 2
                   /\ written'[1][1] \in {"Count", "Serial Number"}
                   /\ \A i \in 1..Len(scannedItems) :
                        IF variant = "debounce"
                        THEN written'[i + 1]
                                = <<i, scannedItems[i].serialNumber>>
                        ELSE written'[i + 1]
                                = <<scannedItems[i].serialNumber,
                                    ToLocaleString(scannedItems[i].timestamp)>>
      ]_vars

\* the debounce revision has exported a list of two records
C20_Witness ==
    /\ lastEvent = "export"
    /\ variant = "debounce"
    /\ Len(scannedItems) = 2
    /\ Len(written) = 3
    /\ written[3] = <<2, scannedItems[2].serialNumber>>

\* the step is a failure of the decoder: start() or stop() rejected, or
\* stop() called on an instance that is not running
FailureStep ==
    \/ lastEvent' \in {"startFailed", "stopFailed"}
    \/ /\ lastEvent' = "stop"
       /\ scannerRef # NoScanner
       /\ ~IsRunning(scannerRef)

\* C21: after a failure of the decoder in the mounted component, while
\* starting or while stopping, the session is set to not scanning and an
\* error message is set; the list is as it was.
C21_FailureStopsSession ==
    [][ (mounted /\ FailureStep)
        => /\ queuedScanning' = FALSE
           /\ message'.type = "error"
           /\ queuedItems' = queuedItems
           /\ scannedItems' = scannedItems ]_vars

\* C21, the half about starting: after a failed start the session is set to
\* not scanning, the camera error is set, and the list is as it was
C21_StartFailureStopsSession ==
    [][ (mounted /\ lastEvent' = "startFailed")
        => /\ queuedScanning' = FALSE
           /\ message' = CameraFailedMessage
           /\ queuedItems' = queuedItems
           /\ scannedItems' = scannedItems ]_vars

\* the step is a character accepted after a silence longer than the
\* threshold: the character branch empties the buffer before appending
SilenceResetStep ==
    /\ CharacterStep
    /\ mounted
    /\ now - lastKeyTimeRef > SilenceThreshold

\* the step takes content out of the buffer without passing it on
DiscardStep ==
    /\ Trim(scanBufferRef) # <<>>
    /\ ~IsPrefix(scanBufferRef, scanBufferRef')
    /\ lastHanded' = <<>>

\* C22: when the silence reset empties the buffer of the enabled listener,
\* the buffer holds no non-blank character (the quiet timer has flushed it
\* by then); the only step that takes non-blank content out of the buffer
\* without passing it on is the pause.
C22_SilenceResetDropsNothing ==
    [][ /\ SilenceResetStep => Trim(scanBufferRef) = <<>>
        /\ DiscardStep => lastEvent' = "toggle" ]_vars

\* C23: while an auto-save timer of the mounted listener is outstanding, the
\* session is enabled and the buffer is not empty.
C23_TimerImpliesEnabledNonEmpty ==
    (mounted /\ timers # {}) => (isScanning /\ scanBufferRef # <<>>)

\* the decoder instances that are scanning
RunningDecoders == {d \in decoders : d.state = "running"}

\* C24: in the mounted camera page at most one decoder instance is scanning,
\* scannerRef refers to it, and the session is set to scanning exactly when
\* an instance is scanning or being stopped.
C24_OneDecoderThroughScannerRef ==
    mounted =>
        /\ Cardinality(RunningDecoders) <= 1
        /\ \A d \in RunningDecoders : scannerRef = d.id
        /\ queuedScanning
              <=> \E d \in decoders : d.state \in {"running", "stopping"}

=============================================================================
